---- MODULE Spec2Model ----
(***************************************************************************)
(* Model of src/server.js (Mosaic Ad War Room backend): one HTTP GET       *)
(* request handled by the express routes /meta, /meta/brand, /amazon and   *)
(* /dashboard, together with the helper fetchAdsForCompetitor.             *)
(*                                                                         *)
(* Every request is handled independently and the handlers share no        *)
(* mutable state, so the model follows one request from its arrival to     *)
(* its response.  A handler is cut into steps at its `await`s.             *)
(*                                                                         *)
(* Time is counted in ticks of half a sleep period (250 ms); every         *)
(* timestamp of the model is a whole number of ticks.                      *)
(***************************************************************************)
EXTENDS Integers, Sequences, FiniteSets, TLC

\* ------------------------------------------------------------------------
\* JavaScript values
\* ------------------------------------------------------------------------
\* A number-or-null value: an integer, null, or NaN.
Num(n) == [k |-> "num", v |-> n]
Null == [k |-> "null", v |-> 0]
NaN == [k |-> "NaN", v |-> 0]

\* A raw timestamp field of an upstream record: missing (undefined, null or
\* the empty string: all falsy), a date string that parses to instant v, or
\* a non-empty string that `new Date` cannot parse.
Absent == [k |-> "absent", v |-> 0]
DateStr(t) == [k |-> "date", v |-> t]
BadDateStr == [k |-> "bad", v |-> 0]

\* ------------------------------------------------------------------------
\* Program constants
\* ------------------------------------------------------------------------
SleepMs == 500
LongRunningDays == 30
TopN == 5
PageLimit == 25
DayMs == 1000 * 60 * 60 * 24

\* The clock resolution: one tick is half of the sleep period.
TickMs == SleepMs \div 2
SleepTicks == SleepMs \div TickMs
DayTicks == DayMs \div TickMs

COMPETITORS ==
  [ manMatters |-> << "Traya Health", "Bold Care", "Misters", "Ustraa",
                      "Beardo", "ForMen", "The Man Company" >>,
    beBodywise |-> << "Nua Woman", "Plix Life", "OZiva", "Wellbeing Nutrition",
                      "Gynoveda", "The Derma Co", "Minimalist" >>,
    littleJoys |-> << "Gritzo", "Slurrp Farm", "The Moms Co", "Timios",
                      "Healthy Buddy" >> ]

\* Object.keys(COMPETITORS), in insertion order.
ObjectKeys == << "manMatters", "beBodywise", "littleJoys" >>

\* Property names every object literal inherits from Object.prototype.
InheritedKeys == { "constructor", "toString", "__proto__" }

\* COMPETITORS[brand]: the own property, an inherited (truthy, not iterable)
\* property, or undefined.
Lookup(brand) ==
  IF brand \in DOMAIN COMPETITORS
    THEN [k |-> "list", v |-> COMPETITORS[brand]]
    ELSE IF brand \in InheritedKeys
      THEN [k |-> "inherited", v |-> << >>]
      ELSE [k |-> "undefined", v |-> << >>]

\* ------------------------------------------------------------------------
\* Bounds and inputs
\* ------------------------------------------------------------------------
\* Longest page of records an upstream reply carries in the model (the
\* program asks for at most PageLimit).
MaxBatch == 3

\* The instant the request arrives.
Now0 == 100 * DayTicks

Raw(id, delivery, creation) ==
  [id |-> id, ad_delivery_start_time |-> delivery, ad_creation_time |-> creation]

PageA ==
  << Raw("a1", Absent, Absent),
     Raw("a2", DateStr(Now0 - 45 * DayTicks), DateStr(Now0 - 60 * DayTicks)),
     Raw("a3", DateStr(Now0 - 10 * DayTicks - 1), Absent),
     Raw("a4", Absent, DateStr(Now0 - 45 * DayTicks)) >>

PageB ==
  << Raw("b1", BadDateStr, DateStr(Now0 - 40 * DayTicks)),
     Raw("b2", Absent, DateStr(Now0 - 90 * DayTicks)),
     Raw("b3", DateStr(Now0 - 31 * DayTicks + 1), DateStr(Now0 - 70 * DayTicks)),
     Raw("b4", DateStr(Now0 + DayTicks), Absent) >>

Min(a, b) == IF a < b THEN a ELSE b

Pages ==
  LET n == Min(MaxBatch, Min(PageLimit, Len(PageA)))
  IN  { << >>, SubSeq(PageA, 1, n), SubSeq(PageB, 1, n) }

\* Errors axios.get can reject with: an API error carrying the upstream's
\* message, or a transport error with only its own message.
UpstreamErrors ==
  { [api |-> "(#4) Application request limit reached",
     message |-> "Request failed with status code 400"],
    [api |-> "", message |-> "Network Error"] }

TokenError ==
  [api |-> "", message |-> "META_ACCESS_TOKEN not found in environment variables"]

\* err.response?.data?.error?.message || err.message
ErrMessage(err) == IF err.api # "" THEN err.api ELSE err.message

\* ------------------------------------------------------------------------
\* Number semantics used by the handlers
\* ------------------------------------------------------------------------
\* ToNumber: null converts to 0.
ToNum(x) == IF x.k = "num" THEN x.v ELSE 0

\* x > n: false whenever x is NaN; null compares as 0.
GreaterThan(x, n) == IF x.k = "NaN" THEN FALSE ELSE ToNum(x) > n

\* x + y and x - y
Plus(x, y) == IF x.k = "NaN" \/ y.k = "NaN" THEN NaN ELSE Num(ToNum(x) + ToNum(y))
Minus(x, y) == IF x.k = "NaN" \/ y.k = "NaN" THEN NaN ELSE Num(ToNum(x) - ToNum(y))

\* Math.floor(x / d), d a positive integer.
FloorDiv(x, d) == IF x.k = "NaN" THEN NaN ELSE Num(ToNum(x) \div d)

\* Math.round(x / n), n a positive integer: ties go towards +Infinity.
RoundDiv(x, n) == IF x.k = "NaN" THEN NaN ELSE Num((2 * ToNum(x) + n) \div (2 * n))

\* new Date(s), as the number it converts to in a subtraction.
ParseDate(s) == IF s.k = "date" THEN Num(s.v) ELSE NaN

\* JSON.stringify of a number: NaN is written as null.
JsonNum(x) == IF x.k = "NaN" THEN Null ELSE x

\* ------------------------------------------------------------------------
\* fetchAdsForCompetitor: the computed fields of one ad
\* ------------------------------------------------------------------------
\* ad.ad_delivery_start_time || ad.ad_creation_time
StartDate(ad) ==
  IF ad.ad_delivery_start_time.k # "absent"
    THEN ad.ad_delivery_start_time
    ELSE ad.ad_creation_time

\* startDate ? Math.floor((Date.now() - new Date(startDate)) / DayMs) : null
DaysRunning(ad, t) ==
  IF StartDate(ad).k # "absent"
    THEN FloorDiv(Minus(Num(t), ParseDate(StartDate(ad))), DayTicks)
    ELSE Null

IsLongRunning(daysRunning) == GreaterThan(daysRunning, LongRunningDays)

MapAd(ad, competitorName, t) ==
  [ id |-> ad.id,
    ad_delivery_start_time |-> ad.ad_delivery_start_time,
    ad_creation_time |-> ad.ad_creation_time,
    competitor |-> competitorName,
    days_running |-> DaysRunning(ad, t),
    is_long_running |-> IsLongRunning(DaysRunning(ad, t)) ]

\* ads.map(...) over the page the upstream returned.
MapAds(page, competitorName, t) ==
  [i \in 1..Len(page) |-> MapAd(page[i], competitorName, t)]

\* ------------------------------------------------------------------------
\* Array helpers
\* ------------------------------------------------------------------------
\* Mutant of ComesAfter: the comparator's operands swapped (ascending).
ComesAfterAscending(a, b) == GreaterThan(Minus(a.days_running, b.days_running), 0)

\* (a, b) => b.days_running - a.days_running, as "a must come after b".
ComesAfter(a, b) == GreaterThan(Minus(b.days_running, a.days_running), 0)

\* Array.prototype.sort is stable: x goes before the first element that
\* must come after it.
RECURSIVE InsertSorted(_, _)
InsertSorted(s, x) ==
  IF s = << >> THEN << x >>
  ELSE IF ComesAfter(Head(s), x) THEN << x >> \o s
       ELSE << Head(s) >> \o InsertSorted(Tail(s), x)

RECURSIVE SortByDays(_)
SortByDays(s) ==
  IF s = << >> THEN << >>
  ELSE InsertSorted(SortByDays(SubSeq(s, 1, Len(s) - 1)), s[Len(s)])

\* .slice(0, n)
Slice(s, n) == SubSeq(s, 1, Min(n, Len(s)))

\* .reduce((s, a) => s + a.days_running, 0)
RECURSIVE SumDays(_)
SumDays(s) ==
  IF s = << >> THEN Num(0)
  ELSE Plus(SumDays(SubSeq(s, 1, Len(s) - 1)), s[Len(s)].days_running)

IsKnownAge(a) == a.days_running # Null
IsLong(a) == a.is_long_running

\* JSON form of an ad and of a list of ads.
JsonAd(a) == [a EXCEPT !.days_running = JsonNum(a.days_running)]
JsonAds(s) == [i \in 1..Len(s) |-> JsonAd(s[i])]

\* Object.values(results).reduce((sum, r) => sum + r.total_ads, 0)
RECURSIVE SumTotalAds(_)
SumTotalAds(r) ==
  IF DOMAIN r = {} THEN 0
  ELSE LET c == CHOOSE x \in DOMAIN r : TRUE
       IN  r[c].total_ads + SumTotalAds([x \in DOMAIN r \ {c} |-> r[x]])

\* obj[key] = value
Put(obj, key, value) == (key :> value) @@ obj

\* ------------------------------------------------------------------------
\* The request and the state of its handler
\* ------------------------------------------------------------------------
Routes == { "/meta", "/meta/brand", "/amazon", "/dashboard" }

\* Values of the route's query parameter; "" is a missing parameter.
QueryValues(r) ==
  IF r = "/meta" THEN { "", "Traya Health" }
  ELSE IF r = "/amazon" THEN { "", "B09THQH4KN" }
  ELSE { "", "manMatters", "littleJoys", "unknown", "constructor" }

\* process.env: the credential the route reads is set or not; the one it
\* never reads is set.
Environments(r) ==
  { e \in [META_ACCESS_TOKEN : BOOLEAN, RAINFOREST_API_KEY : BOOLEAN] :
      IF r = "/amazon" THEN e.META_ACCESS_TOKEN ELSE e.RAINFOREST_API_KEY }

NoResponse == [status |-> 0, body |-> << >>]

VARIABLES
  route,        \* the path of the request
  query,        \* req.query.competitor / .brand / .asin
  env,          \* which of process.env's credentials are set
  pc,           \* where the handler is
  competitors,  \* const competitors
  idx,          \* position of the for...of loop in competitors
  results,      \* const results
  errors,       \* const errors
  allAds,       \* const allAds
  now,          \* Date.now()
  timer,        \* when the pending setTimeout fires
  adapterLog,   \* the invocations of fetchAdsForCompetitor so far
  pending,      \* axios.get calls to the ad archive awaiting their reply
  productCalls, \* axios.get calls issued to the product-data API
  res           \* the response sent, NoResponse before

vars == << route, query, env, pc, competitors, idx, results, errors, allAds,
           now, timer, adapterLog, pending, productCalls, res >>

Init ==
  /\ route \in Routes
  /\ query \in QueryValues(route)
  /\ env \in Environments(route)
  /\ pc = "start"
  /\ competitors = << >>
  /\ idx = 1
  /\ results = << >>
  /\ errors = << >>
  /\ allAds = << >>
  /\ now = Now0
  /\ timer = 0
  /\ adapterLog = << >>
  /\ pending = 0
  /\ productCalls = 0
  /\ res = NoResponse

\* Mutant of HasToken: the token check is dropped.
HasTokenUnchecked == TRUE

HasToken == env.META_ACCESS_TOKEN

\* One invocation of fetchAdsForCompetitor, as adapterLog records it: when
\* it started and ended (-1 while it awaits), whether it issued the archive
\* request, whether it threw, and the page the archive returned.
Invocation(name, upstream) ==
  [competitor |-> name, start |-> now, end |-> IF upstream THEN -1 ELSE now,
   upstream |-> upstream, failed |-> ~upstream, page |-> << >>]

\* `if (!token) throw`: the invocation ends before any request is made.
AdapterThrows(name) ==
  /\ adapterLog' = Append(adapterLog, Invocation(name, FALSE))
  /\ pending' = pending

\* The invocation issues axios.get and awaits it.
AdapterCalls(name) ==
  /\ adapterLog' = Append(adapterLog, Invocation(name, TRUE))
  /\ pending' = pending + 1

\* The awaited axios.get settles: it rejects, or replies with a page.
AdapterSettles(failed, page) ==
  /\ adapterLog' = [adapterLog EXCEPT ![Len(adapterLog)] =
                      [@ EXCEPT !.end = now, !.failed = failed, !.page = page]]
  /\ pending' = pending - 1

\* await sleep(ms): setTimeout(resolve, ms)
Sleep(ms) == timer' = now + ms \div TickMs

\* ------------------------------------------------------------------------
\* GET /meta
\* ------------------------------------------------------------------------
MetaStart ==
  /\ pc = "start" /\ route = "/meta"
  /\ IF query = ""
       THEN /\ res' = [status |-> 400,
                       body |-> [error |-> "Missing competitor parameter. Use ?competitor=BrandName"]]
            /\ pc' = "done"
            /\ UNCHANGED << adapterLog, pending >>
       ELSE IF ~HasToken
         THEN /\ AdapterThrows(query)
              /\ res' = [status |-> 500,
                         body |-> [status |-> "ERROR", competitor |-> query,
                                   error |-> ErrMessage(TokenError)]]
              /\ pc' = "done"
         ELSE /\ AdapterCalls(query)
              /\ pc' = "inflight"
              /\ res' = res
  /\ UNCHANGED << route, query, env, competitors, idx, results, errors, allAds,
                  now, timer, productCalls >>

MetaReply(page) ==
  /\ pc = "inflight" /\ route = "/meta"
  /\ AdapterSettles(FALSE, page)
  /\ LET ads == MapAds(page, query, now)
     IN  res' = [status |-> 200,
                 body |-> [status |-> "SUCCESS", competitor |-> query,
                           total_ads |-> Len(ads), ads |-> JsonAds(ads)]]
  /\ pc' = "done"
  /\ UNCHANGED << route, query, env, competitors, idx, results, errors, allAds,
                  now, timer, productCalls >>

MetaFail(err) ==
  /\ pc = "inflight" /\ route = "/meta"
  /\ AdapterSettles(TRUE, << >>)
  /\ res' = [status |-> 500,
             body |-> [status |-> "ERROR", competitor |-> query,
                       error |-> ErrMessage(err)]]
  /\ pc' = "done"
  /\ UNCHANGED << route, query, env, competitors, idx, results, errors, allAds,
                  now, timer, productCalls >>

\* ------------------------------------------------------------------------
\* Parts shared by GET /meta/brand and GET /dashboard
\* ------------------------------------------------------------------------
\* !brand || !COMPETITORS[brand]
InvalidBrand(brand) == brand = "" \/ Lookup(brand).k = "undefined"

\* `for (const competitor of competitors)` over a value that is not
\* iterable throws a TypeError out of the async handler.  Nothing in the
\* program catches it: express 4 leaves the request unanswered, express 5
\* passes the rejection to its default error handler, which answers 500.
UnhandledRejection ==
  /\ res' \in { NoResponse,
               [status |-> 500, body |-> [error |-> "competitors is not iterable"]] }
  /\ pc' = "rejected"

\* The setTimeout callback cannot run before its delay has passed.
\* Only the timer's delay is counted: the time an archive request takes is
\* taken as zero, which changes no gap between the end of one fetch and the
\* start of the next.
Tick ==
  /\ pc = "sleep" /\ now < timer
  /\ now' = now + 1
  /\ UNCHANGED << route, query, env, pc, competitors, idx, results, errors,
                  allAds, timer, adapterLog, pending, productCalls, res >>

\* ------------------------------------------------------------------------
\* GET /meta/brand
\* ------------------------------------------------------------------------
BrandStart ==
  /\ pc = "start" /\ route = "/meta/brand"
  /\ IF InvalidBrand(query)
       THEN /\ res' = [status |-> 400,
                       body |-> [error |-> "Invalid brand. Use ?brand=manMatters or ?brand=beBodywise or ?brand=littleJoys",
                                 valid_brands |-> ObjectKeys]]
            /\ pc' = "done"
            /\ UNCHANGED competitors
       ELSE IF Lookup(query).k # "list"
         THEN /\ UnhandledRejection
              /\ UNCHANGED competitors
         ELSE /\ competitors' = Lookup(query).v
              /\ pc' = "loop"
              /\ res' = res
  /\ UNCHANGED << route, query, env, idx, results, errors, allAds, now, timer,
                  adapterLog, pending, productCalls >>

\* Top of a loop iteration: fetchAdsForCompetitor(competitor) is invoked.
BrandFetch ==
  /\ pc = "loop" /\ route = "/meta/brand" /\ idx <= Len(competitors)
  /\ IF ~HasToken
       THEN /\ AdapterThrows(competitors[idx])
            /\ errors' = Put(errors, competitors[idx], ErrMessage(TokenError))
            /\ idx' = idx + 1
            /\ pc' = pc
       ELSE /\ AdapterCalls(competitors[idx])
            /\ pc' = "inflight"
            /\ UNCHANGED << errors, idx >>
  /\ UNCHANGED << route, query, env, competitors, results, allAds, now, timer,
                  productCalls, res >>

BrandReply(page) ==
  /\ pc = "inflight" /\ route = "/meta/brand"
  /\ AdapterSettles(FALSE, page)
  /\ LET ads == MapAds(page, competitors[idx], now)
     IN  results' = Put(results, competitors[idx],
                        [total_ads |-> Len(ads),
                         long_running_ads |-> Len(SelectSeq(ads, IsLong)),
                         ads |-> ads])
  /\ Sleep(SleepMs)
  /\ pc' = "sleep"
  /\ UNCHANGED << route, query, env, competitors, idx, errors, allAds, now,
                  productCalls, res >>

\* Mutant of BrandFail: the failed competitor is fetched again.
BrandFailRetries(err) ==
  /\ pc = "inflight" /\ route = "/meta/brand"
  /\ AdapterSettles(TRUE, << >>)
  /\ errors' = Put(errors, competitors[idx], ErrMessage(err))
  /\ pc' = "loop"
  /\ UNCHANGED << route, query, env, competitors, idx, results, allAds, now,
                  timer, productCalls, res >>

\* Mutant of BrandFail: the first failure ends the loop.
BrandFailAborts(err) ==
  /\ pc = "inflight" /\ route = "/meta/brand"
  /\ AdapterSettles(TRUE, << >>)
  /\ errors' = Put(errors, competitors[idx], ErrMessage(err))
  /\ idx' = Len(competitors) + 1
  /\ pc' = "loop"
  /\ UNCHANGED << route, query, env, competitors, results, allAds, now, timer,
                  productCalls, res >>

BrandFail(err) ==
  /\ pc = "inflight" /\ route = "/meta/brand"
  /\ AdapterSettles(TRUE, << >>)
  /\ errors' = Put(errors, competitors[idx], ErrMessage(err))
  /\ idx' = idx + 1
  /\ pc' = "loop"
  /\ UNCHANGED << route, query, env, competitors, results, allAds, now, timer,
                  productCalls, res >>

BrandWake ==
  /\ pc = "sleep" /\ route = "/meta/brand" /\ now >= timer
  /\ idx' = idx + 1
  /\ pc' = "loop"
  /\ UNCHANGED << route, query, env, competitors, results, errors, allAds, now,
                  timer, adapterLog, pending, productCalls, res >>

\* results as res.json writes it
JsonResults(r) ==
  [c \in DOMAIN r |-> [r[c] EXCEPT !.ads = JsonAds(r[c].ads)]]

BrandBody ==
  [ status |-> "SUCCESS",
    brand |-> query,
    competitors_tracked |-> Len(competitors),
    total_ads_fetched |-> SumTotalAds(results),
    results |-> JsonResults(results) ]

BrandRespond ==
  /\ pc = "loop" /\ route = "/meta/brand" /\ idx > Len(competitors)
  /\ res' = [status |-> 200,
             body |-> IF DOMAIN errors # {}
                        THEN BrandBody @@ [errors |-> errors]
                        ELSE BrandBody]
  /\ pc' = "done"
  /\ UNCHANGED << route, query, env, competitors, idx, results, errors, allAds,
                  now, timer, adapterLog, pending, productCalls >>

\* ------------------------------------------------------------------------
\* GET /dashboard
\* ------------------------------------------------------------------------
DashboardStart ==
  /\ pc = "start" /\ route = "/dashboard"
  /\ IF InvalidBrand(query)
       THEN /\ res' = [status |-> 400,
                       body |-> [error |-> "Invalid brand",
                                 valid_brands |-> ObjectKeys]]
            /\ pc' = "done"
            /\ UNCHANGED competitors
       ELSE IF Lookup(query).k # "list"
         THEN /\ UnhandledRejection
              /\ UNCHANGED competitors
         ELSE /\ competitors' = Lookup(query).v
              /\ pc' = "loop"
              /\ res' = res
  /\ UNCHANGED << route, query, env, idx, results, errors, allAds, now, timer,
                  adapterLog, pending, productCalls >>

DashboardFetch ==
  /\ pc = "loop" /\ route = "/dashboard" /\ idx <= Len(competitors)
  /\ IF ~HasToken
       THEN /\ AdapterThrows(competitors[idx])
            /\ idx' = idx + 1
            /\ pc' = pc
       ELSE /\ AdapterCalls(competitors[idx])
            /\ pc' = "inflight"
            /\ UNCHANGED idx
  /\ UNCHANGED << route, query, env, competitors, results, errors, allAds, now,
                  timer, productCalls, res >>

\* Mutant of DashboardReply: the new ads are put in front of allAds.
DashboardReplyUnshift(page) ==
  /\ pc = "inflight" /\ route = "/dashboard"
  /\ AdapterSettles(FALSE, page)
  /\ allAds' = MapAds(page, competitors[idx], now) \o allAds
  /\ Sleep(SleepMs)
  /\ pc' = "sleep"
  /\ UNCHANGED << route, query, env, competitors, idx, results, errors, now,
                  productCalls, res >>

DashboardReply(page) ==
  /\ pc = "inflight" /\ route = "/dashboard"
  /\ AdapterSettles(FALSE, page)
  /\ allAds' = allAds \o MapAds(page, competitors[idx], now)
  /\ Sleep(SleepMs)
  /\ pc' = "sleep"
  /\ UNCHANGED << route, query, env, competitors, idx, results, errors, now,
                  productCalls, res >>

\* The catch block only writes to the console.
DashboardFail(err) ==
  /\ pc = "inflight" /\ route = "/dashboard"
  /\ AdapterSettles(TRUE, << >>)
  /\ idx' = idx + 1
  /\ pc' = "loop"
  /\ UNCHANGED << route, query, env, competitors, results, errors, allAds, now,
                  timer, productCalls, res >>

DashboardWake ==
  /\ pc = "sleep" /\ route = "/dashboard" /\ now >= timer
  /\ idx' = idx + 1
  /\ pc' = "loop"
  /\ UNCHANGED << route, query, env, competitors, results, errors, allAds, now,
                  timer, adapterLog, pending, productCalls, res >>

\* const activeAds / const longRunning
ActiveAds(all) == SelectSeq(all, IsKnownAge)
LongRunning(all) == SelectSeq(all, IsLong)

\* activeAds.length ? Math.round(sum / activeAds.length) : 0
AvgDaysRunning(all) ==
  IF Len(ActiveAds(all)) # 0
    THEN RoundDiv(SumDays(ActiveAds(all)), Len(ActiveAds(all)))
    ELSE Num(0)

\* Mutant of TopLongRunning: the list is cut before it is sorted.
TopLongRunningCutFirst(all) == SortByDays(Slice(LongRunning(all), TopN))

\* longRunning.sort(...).slice(0, 5)
TopLongRunning(all) == Slice(SortByDays(LongRunning(all)), TopN)

DashboardRespond ==
  /\ pc = "loop" /\ route = "/dashboard" /\ idx > Len(competitors)
  /\ res' = [status |-> 200,
             body |-> [ status |-> "SUCCESS",
                        brand |-> query,
                        summary |-> [ total_ads |-> Len(allAds),
                                      competitors_tracked |-> Len(competitors),
                                      long_running_ads |-> Len(LongRunning(allAds)),
                                      avg_days_running |-> JsonNum(AvgDaysRunning(allAds)) ],
                        top_long_running |-> JsonAds(TopLongRunning(allAds)),
                        all_ads |-> JsonAds(allAds) ]]
  /\ pc' = "done"
  /\ UNCHANGED << route, query, env, competitors, idx, results, errors, allAds,
                  now, timer, adapterLog, pending, productCalls >>

\* ------------------------------------------------------------------------
\* GET /amazon
\* ------------------------------------------------------------------------
\* What the product-data API can reply: a product with or without a buybox
\* price.
Products ==
  { [title |-> "Hair Growth Kit", price |-> "Rs. 499"],
    [title |-> "Hair Growth Kit", price |-> ""] }

AmazonStart ==
  /\ pc = "start" /\ route = "/amazon"
  /\ IF query = ""
       THEN /\ res' = [status |-> 400,
                       body |-> [error |-> "Missing asin parameter. Use ?asin=ASIN_CODE"]]
            /\ pc' = "done"
            /\ UNCHANGED productCalls
       ELSE IF ~env.RAINFOREST_API_KEY
         THEN /\ res' = [status |-> 500,
                         body |-> [error |-> "RAINFOREST_API_KEY not configured"]]
              /\ pc' = "done"
              /\ UNCHANGED productCalls
         ELSE /\ productCalls' = productCalls + 1
              /\ pc' = "inflight"
              /\ res' = res
  /\ UNCHANGED << route, query, env, competitors, idx, results, errors, allAds,
                  now, timer, adapterLog, pending >>

AmazonReply(product) ==
  /\ pc = "inflight" /\ route = "/amazon"
  /\ res' = [status |-> 200,
             body |-> [status |-> "SUCCESS", asin |-> query,
                       title |-> product.title,
                       price |-> IF product.price # "" THEN product.price ELSE "N/A"]]
  /\ pc' = "done"
  /\ UNCHANGED << route, query, env, competitors, idx, results, errors, allAds,
                  now, timer, adapterLog, pending, productCalls >>

AmazonFail(err) ==
  /\ pc = "inflight" /\ route = "/amazon"
  /\ res' = [status |-> 500,
             body |-> [status |-> "ERROR", error |-> ErrMessage(err)]]
  /\ pc' = "done"
  /\ UNCHANGED << route, query, env, competitors, idx, results, errors, allAds,
                  now, timer, adapterLog, pending, productCalls >>

\* ------------------------------------------------------------------------
\* The specification
\* ------------------------------------------------------------------------
Next ==
  \/ MetaStart
  \/ \E page \in Pages : MetaReply(page)
  \/ \E err \in UpstreamErrors : MetaFail(err)
  \/ BrandStart
  \/ BrandFetch
  \/ \E page \in Pages : BrandReply(page)
  \/ \E err \in UpstreamErrors : BrandFail(err)
  \/ BrandWake
  \/ BrandRespond
  \/ DashboardStart
  \/ DashboardFetch
  \/ \E page \in Pages : DashboardReply(page)
  \/ \E err \in UpstreamErrors : DashboardFail(err)
  \/ DashboardWake
  \/ DashboardRespond
  \/ AmazonStart
  \/ \E product \in Products : AmazonReply(product)
  \/ \E err \in UpstreamErrors : AmazonFail(err)
  \/ Tick

Spec == Init /\ [][Next]_vars

\* ------------------------------------------------------------------------
\* Vocabulary of the properties
\* ------------------------------------------------------------------------
BrandRoutes == { "/meta/brand", "/dashboard" }

\* The three brand keys the interface documents.
DocumentedBrands == { "manMatters", "beBodywise", "littleJoys" }

Range(s) == { s[i] : i \in 1..Len(s) }
Names(log) == [i \in 1..Len(log) |-> log[i].competitor]
IsUpstream(e) == e.upstream
UpstreamCalls == SelectSeq(adapterLog, IsUpstream)

\* The request was for a brand route with a brand of the registry.
KnownBrandRequest == route \in BrandRoutes /\ query \in DocumentedBrands

\* The competitors whose invocation has failed so far.
FailedSet == { adapterLog[i].competitor : i \in { j \in 1..Len(adapterLog) : adapterLog[j].failed } }

\* ------------------------------------------------------------------------
\* C1.  A /meta/brand or /dashboard request whose brand is absent or is
\* not one of manMatters, beBodywise, littleJoys is answered 400 with
\* valid_brands listing exactly those three keys, and no ad-archive call is
\* issued for it.
\* ------------------------------------------------------------------------
C1_InvalidBrandAnswered400 ==
  (route \in BrandRoutes /\ query \notin DocumentedBrands /\ pc # "start") =>
     /\ res.status = 400
     /\ Len(res.body.valid_brands) = 3
     /\ Range(res.body.valid_brands) = DocumentedBrands
     /\ UpstreamCalls = << >>

\* ------------------------------------------------------------------------
\* C2.  A /meta/brand or /dashboard request for a known brand with N
\* competitors issues exactly N ad-archive calls: one per competitor, in
\* registry order, never two in flight at once, none repeated, whatever
\* subset of them fails.
\* ------------------------------------------------------------------------
C2_ExactlyNUpstreamCalls ==
  KnownBrandRequest =>
     /\ pending <= 1
     /\ pc = "done" => Names(UpstreamCalls) = COMPETITORS[query]

\* C2 as amended: the fetch helper is invoked once per competitor, in
\* registry order and never again; each invocation issues one archive call
\* when the token is set and none when it is not; at most one call is in
\* flight; the response is sent after the N-th invocation.
C2_OneInvocationPerCompetitor ==
  KnownBrandRequest =>
     /\ pending <= 1
     /\ Len(adapterLog) <= Len(COMPETITORS[query])
     /\ Names(adapterLog) = SubSeq(COMPETITORS[query], 1, Len(adapterLog))
     /\ UpstreamCalls = IF env.META_ACCESS_TOKEN THEN adapterLog ELSE << >>
     /\ pc = "done" => Len(adapterLog) = Len(COMPETITORS[query])

\* A brand request with the token set has ended with some calls failed and
\* some answered.
C2_Witness ==
  /\ KnownBrandRequest /\ pc = "done" /\ env.META_ACCESS_TOKEN
  /\ Len(UpstreamCalls) = Len(COMPETITORS[query])
  /\ \E i, j \in 1..Len(adapterLog) : adapterLog[i].failed /\ ~adapterLog[j].failed

\* ------------------------------------------------------------------------
\* C3.  Within one /meta/brand or /dashboard request, the next competitor's
\* fetch never starts less than 500 ms after the previous competitor's
\* fetch ended, whether that fetch succeeded or failed.
\* ------------------------------------------------------------------------
C3_DelayBetweenFetches ==
  route \in BrandRoutes =>
     \A i \in 1..(Len(adapterLog) - 1) :
        (adapterLog[i].upstream /\ adapterLog[i + 1].upstream) =>
           (adapterLog[i + 1].start - adapterLog[i].end) * TickMs >= 500

\* ------------------------------------------------------------------------
\* C4.  A /meta/brand request for a known brand, whatever set F of its
\* competitors fails, is answered 200; the keys of results are the
\* competitors outside F, the keys of errors are F, errors is absent exactly
\* when F is empty, every competitor is processed, and total_ads_fetched is
\* the sum of total_ads over results.
\* ------------------------------------------------------------------------
RECURSIVE TotalAdsOver(_, _)
TotalAdsOver(names, r) ==
  IF names = << >> THEN 0
  ELSE (IF Head(names) \in DOMAIN r THEN r[Head(names)].total_ads ELSE 0)
       + TotalAdsOver(Tail(names), r)

C4_PartialFailure ==
  (route = "/meta/brand" /\ query \in DocumentedBrands /\ pc = "done") =>
     /\ res.status = 200
     /\ Names(adapterLog) = COMPETITORS[query]
     /\ \A i \in 1..Len(adapterLog) : adapterLog[i].end >= adapterLog[i].start
     /\ DOMAIN res.body.results = Range(COMPETITORS[query]) \ FailedSet
     /\ ("errors" \in DOMAIN res.body) <=> (FailedSet # {})
     /\ FailedSet # {} => DOMAIN res.body.errors = FailedSet
     /\ \A i \in 1..Len(adapterLog) :
          ~adapterLog[i].failed =>
             res.body.results[adapterLog[i].competitor].total_ads = Len(adapterLog[i].page)
     /\ res.body.total_ads_fetched = TotalAdsOver(COMPETITORS[query], res.body.results)

\* A /meta/brand response where a competitor failed and a later one
\* returned ads.
C4_Witness ==
  /\ route = "/meta/brand" /\ pc = "done" /\ env.META_ACCESS_TOKEN
  /\ \E i, j \in 1..Len(adapterLog) :
        /\ i < j
        /\ adapterLog[i].failed
        /\ ~adapterLog[j].failed
        /\ Len(adapterLog[j].page) > 0
  /\ res.body.total_ads_fetched > 0

\* ------------------------------------------------------------------------
\* Vocabulary of the /dashboard properties
\* ------------------------------------------------------------------------
DashboardDone == route = "/dashboard" /\ query \in DocumentedBrands /\ pc = "done"

\* d1 is a greater days_running than d2, null being the lowest.
GreaterDays(d1, d2) == d1.k = "num" /\ (d2.k # "num" \/ d1.v > d2.v)

HasKnownDays(a) == a.days_running.k # "null"

RECURSIVE SumOfDays(_)
SumOfDays(s) == IF s = << >> THEN 0 ELSE Head(s).days_running.v + SumOfDays(Tail(s))

Abs(n) == IF n < 0 THEN -n ELSE n

\* ------------------------------------------------------------------------
\* C5.  In every /dashboard response top_long_running is the list of all
\* collected ads sorted by days_running descending, null lowest, cut to 5:
\* it has min(5, number of ads in all_ads) entries and no ad left out has a
\* greater days_running than an ad in it.
\* ------------------------------------------------------------------------
C5_TopFiveOfAllAds ==
  DashboardDone =>
     LET top == res.body.top_long_running
         all == res.body.all_ads
     IN  /\ Len(top) = Min(5, Len(all))
         /\ \A a \in Range(all) \ Range(top) : \A b \in Range(top) :
               ~GreaterDays(a.days_running, b.days_running)

\* C5 as amended: top_long_running is the list of the ads of all_ads whose
\* is_long_running is true, sorted by days_running descending and cut to 5:
\* it has min(5, number of long-running ads) entries, each a different
\* long-running ad of all_ads, and no long-running ad left out has a
\* greater days_running than an ad in it.
C5_TopFiveOfLongRunning ==
  DashboardDone =>
     LET top == res.body.top_long_running
         long == SelectSeq(res.body.all_ads, IsLong)
     IN  /\ Len(top) = Min(5, Len(long))
         /\ Range(top) \subseteq Range(long)
         /\ \A i, j \in 1..Len(top) : i # j => top[i] # top[j]
         /\ \A i \in 1..(Len(top) - 1) :
               ~GreaterDays(top[i + 1].days_running, top[i].days_running)
         /\ \A a \in Range(long) \ Range(top) : \A b \in Range(top) :
               ~GreaterDays(a.days_running, b.days_running)

\* A dashboard response with more than five long-running ads, one of those
\* left out, and ads that are not long-running.
C5_Witness ==
  /\ DashboardDone
  /\ Len(SelectSeq(res.body.all_ads, IsLong)) > 5
  /\ Len(res.body.all_ads) > Len(SelectSeq(res.body.all_ads, IsLong))
  /\ Len(res.body.top_long_running) = 5

\* ------------------------------------------------------------------------
\* C6.  In every /dashboard response top_long_running has at most 5
\* entries, is in non-increasing order of days_running, and, when all_ads
\* holds a long-running ad, every entry of it is long-running.
\* ------------------------------------------------------------------------
C6_TopSortedBounded ==
  DashboardDone =>
     LET top == res.body.top_long_running
     IN  /\ Len(top) <= 5
         /\ \A i \in 1..(Len(top) - 1) :
               /\ top[i].days_running.k = "num"
               /\ ~GreaterDays(top[i + 1].days_running, top[i].days_running)
         /\ (\E a \in Range(res.body.all_ads) : a.is_long_running) =>
               \A i \in 1..Len(top) : top[i].is_long_running

\* A dashboard response whose five entries are not all of the same age and
\* do not start with the first long-running ad collected.
C6_Witness ==
  /\ DashboardDone
  /\ Len(res.body.top_long_running) = 5
  /\ res.body.top_long_running[1].days_running.v > res.body.top_long_running[5].days_running.v
  /\ res.body.top_long_running[1] # SelectSeq(res.body.all_ads, IsLong)[1]

\* ------------------------------------------------------------------------
\* C7.  In every /dashboard response summary.avg_days_running is the mean
\* of days_running over the ads of all_ads with non-null days_running,
\* rounded to the nearest integer, and 0 when there is no such ad.
\* ------------------------------------------------------------------------
C7_AvgIsRoundedMean ==
  DashboardDone =>
     LET known == SelectSeq(res.body.all_ads, HasKnownDays)
         avg == res.body.summary.avg_days_running
     IN  IF known = << >>
           THEN avg = Num(0)
           ELSE /\ avg.k = "num"
                /\ 2 * Abs(Len(known) * avg.v - SumOfDays(known)) <= Len(known)

\* ------------------------------------------------------------------------
\* C8.  Every ad the fetch helper produces has days_running null exactly
\* when its record has neither a delivery-start nor a creation timestamp;
\* otherwise days_running = floor((now - T) / 1 day), T being the
\* delivery-start time if present and the creation time if not; and
\* is_long_running = (days_running > 30), false when days_running is null.
\* ------------------------------------------------------------------------
\* The ads produced so far, each with the time its fetch returned.
EndOf(c) ==
  LET i == CHOOSE j \in 1..Len(adapterLog) : adapterLog[j].competitor = c
  IN  adapterLog[i].end

ProducedAds ==
  { << allAds[i], EndOf(allAds[i].competitor) >> : i \in 1..Len(allAds) }
  \cup UNION { { << results[c].ads[i], EndOf(c) >> : i \in 1..Len(results[c].ads) } :
               c \in DOMAIN results }

C8_DerivedFields ==
  \A p \in ProducedAds :
     LET ad == p[1]
         t == p[2]
         hasDelivery == ad.ad_delivery_start_time.k # "absent"
         hasCreation == ad.ad_creation_time.k # "absent"
         T == IF hasDelivery THEN ad.ad_delivery_start_time ELSE ad.ad_creation_time
     IN  /\ (ad.days_running = Null) <=> (~hasDelivery /\ ~hasCreation)
         /\ (hasDelivery \/ hasCreation) =>
               ad.days_running = Num((t - T.v) \div (DayMs \div TickMs))
         /\ ad.is_long_running =
               (ad.days_running.k = "num" /\ ad.days_running.v > 30)

\* ------------------------------------------------------------------------
\* C9.  A request that passes parameter validation while the credential its
\* route needs is not configured is answered 500 with a message naming the
\* credential, and no upstream call is issued for it.
\* ------------------------------------------------------------------------
PassesValidation ==
  \/ route \in { "/meta", "/amazon" } /\ query # ""
  \/ KnownBrandRequest

CredentialMissing ==
  IF route = "/amazon" THEN ~env.RAINFOREST_API_KEY ELSE ~env.META_ACCESS_TOKEN

\* The messages of the program that name each credential.
TokenMessage == "META_ACCESS_TOKEN not found in environment variables"
KeyMessage == "RAINFOREST_API_KEY not configured"

NoUpstreamCall == UpstreamCalls = << >> /\ pending = 0 /\ productCalls = 0

C9_MissingCredential500 ==
  (PassesValidation /\ CredentialMissing) =>
     /\ NoUpstreamCall
     /\ pc = "done" =>
          /\ res.status = 500
          /\ res.body.error = IF route = "/amazon" THEN KeyMessage ELSE TokenMessage

\* C9 as amended: no upstream call is issued for such a request; /meta and
\* /amazon answer 500 with a message naming the credential; /meta/brand
\* answers 200 with empty results and, for every competitor of the brand,
\* an errors entry naming the token; /dashboard answers 200 with no ad and
\* a summary of zeros.
C9_MissingCredential ==
  (PassesValidation /\ CredentialMissing) =>
     /\ NoUpstreamCall
     /\ pc = "done" =>
          CASE route = "/meta" ->
                 res.status = 500 /\ res.body.error = TokenMessage
            [] route = "/amazon" ->
                 res.status = 500 /\ res.body.error = KeyMessage
            [] route = "/meta/brand" ->
                 /\ res.status = 200
                 /\ DOMAIN res.body.results = {}
                 /\ DOMAIN res.body.errors = Range(COMPETITORS[query])
                 /\ \A c \in DOMAIN res.body.errors : res.body.errors[c] = TokenMessage
            [] route = "/dashboard" ->
                 /\ res.status = 200
                 /\ res.body.all_ads = << >>
                 /\ res.body.top_long_running = << >>
                 /\ res.body.summary.total_ads = 0
                 /\ res.body.summary.long_running_ads = 0
                 /\ res.body.summary.avg_days_running = Num(0)

\* A /meta/brand request for a known brand has been answered with the
\* token not configured.
C9_Witness ==
  /\ route = "/meta/brand" /\ query \in DocumentedBrands
  /\ ~env.META_ACCESS_TOKEN
  /\ pc = "done"
  /\ Len(adapterLog) = Len(COMPETITORS[query])

\* ------------------------------------------------------------------------
\* C10.  A /dashboard request for a known brand, whatever subset of its
\* competitors fails, is answered 200; all_ads is the concatenation, in
\* registry order, of the ads returned by the competitors that succeeded,
\* and nothing else records a failure; summary.total_ads is the length of
\* all_ads, summary.long_running_ads the number of its ads with
\* is_long_running true; building top_long_running leaves all_ads in order.
\* ------------------------------------------------------------------------
\* The (competitor, id) pairs of the records competitor c was answered with.
ReturnedBy(c) ==
  LET hit == { j \in 1..Len(adapterLog) :
                 adapterLog[j].competitor = c /\ ~adapterLog[j].failed }
  IN  IF hit = {} THEN << >>
      ELSE LET page == adapterLog[CHOOSE j \in hit : TRUE].page
           IN  [i \in 1..Len(page) |-> << c, page[i].id >>]

RECURSIVE ReturnedInOrder(_)
ReturnedInOrder(names) ==
  IF names = << >> THEN << >>
  ELSE ReturnedBy(Head(names)) \o ReturnedInOrder(Tail(names))

AdKeys(s) == [i \in 1..Len(s) |-> << s[i].competitor, s[i].id >>]

C10_DashboardOmitsFailures ==
  DashboardDone =>
     /\ res.status = 200
     /\ AdKeys(res.body.all_ads) = ReturnedInOrder(COMPETITORS[query])
     /\ DOMAIN res.body = { "status", "brand", "summary", "top_long_running", "all_ads" }
     /\ res.body.summary.total_ads = Len(res.body.all_ads)
     /\ res.body.summary.long_running_ads =
           Cardinality({ i \in 1..Len(res.body.all_ads) : res.body.all_ads[i].is_long_running })

\* A dashboard response where a competitor failed between two that returned
\* ads, and where the top list starts with an ad that is not the first
\* long-running ad of all_ads.
C10_Witness ==
  /\ DashboardDone
  /\ \E i, j, k \in 1..Len(adapterLog) :
        /\ i < j /\ j < k
        /\ ~adapterLog[i].failed /\ Len(adapterLog[i].page) > 0
        /\ adapterLog[j].failed
        /\ ~adapterLog[k].failed /\ Len(adapterLog[k].page) > 0
  /\ Len(res.body.top_long_running) >= 2
  /\ res.body.top_long_running[1] # SelectSeq(res.body.all_ads, IsLong)[1]

====
